---- MODULE Spec2Model ----
(***************************************************************************)
(* Booking / seat / waitlist / job orchestration of the airline system,    *)
(* as written in src/api/index.ts (the BullMQ job processors, the booking  *)
(* validation and the retry / dead-letter configuration).                  *)
(*                                                                         *)
(* Every handler is split at its awaits where another request or job can   *)
(* interleave: a read step (findUnique / count / findMany) and a write     *)
(* step (the $transaction or update that follows).                         *)
(*                                                                         *)
(* Time is counted in ticks.  Delays keep their order of the source (the   *)
(* retry backoff doubles, the expiry window is longer than a tick) but not *)
(* their millisecond values.                                               *)
(***************************************************************************)
EXTENDS Integers, Sequences, FiniteSets, TLC

VARIABLES
    now,            \* the clock (Date.now()), in ticks
    booking,        \* Booking.status per booking id ("NONE": no such row yet)
    ticket,         \* the Ticket row of each booking: flightId, seatId, ticketStatus
    req,            \* the create-booking request of each client: position and seat asked
    confirmResp,    \* what confirmPayment returned for a booking
    cancelResp,     \* what cancel returned for a booking
    bookingHistory, \* StatusHistory rows of each booking, oldest first
    waitlist,       \* Waitlist rows in creation order (createdAt ASC = index ASC)
    jobs,           \* the job table of the booking queue, in enqueue order
    notified,       \* notificationQueue.add counts per event name
    failedJobs,     \* prisma.failedJob rows: the ids of dead-lettered jobs, in order
    flight,         \* Flight.status per flight
    flightHistory,  \* FlightStatusHistory rows
    flightResp,     \* what the last transition request on a flight returned
    consecutiveFailures, \* the circuit breaker's counter
    queuePaused,    \* bookingQueue.pause() is in effect
    resumeTimers,   \* the times the pending setTimeout callbacks of the breaker fire at
    failureStreak,  \* history: handler failures since the last success or resume of the queue
    worker,         \* the workers of the dispatch loop: position and job picked
    signUp          \* the sign-up / create-user payload under validation and its outcome

flightVars == <<flight, flightHistory, flightResp>>

breakerVars == <<consecutiveFailures, queuePaused, resumeTimers, failureStreak>>

vars == <<now, booking, ticket, req, confirmResp, cancelResp, bookingHistory,
          waitlist, jobs, notified, failedJobs, flightVars, breakerVars, worker, signUp>>

----------------------------------------------------------------------------
(* Bounds of the model *)

MaxWaitlist == 2
MaxTime == 1
MaxStalls == 1
MaxJobs == 1
MaxBreakerJobs == 3
\* Dates are counted in steps of which DaysPerYear make a year; dates of
\* birth range over 0..MaxBirthDate.
DaysPerYear == 2
MaxBirthDate == 4
\* flight.scheduledDepart and flight.scheduledArrive of the modelled flights
ScheduledDepart == 2
ScheduledArrive == 3

\* Two clients: the least number that can race for one seat.
BookingIds == {1, 2}
Seats == {1}
Flights == {1}
\* Two workers: the least pool in which two can go for one job.
Workers == {1, 2}
Ranks == {1, 2}

(* Program constants, in ticks *)

\* delay: 15 * 60 * 1000 of the expire-booking job
ExpireBookingDelay == 1
\* attempts: 3 of the expire-booking job and of the retry configuration
ExpireBookingAttempts == 3
\* attempts: 5 of the process-waitlist job
ProcessWaitlistAttempts == 5
\* backoff.delay: 2000
BackoffDelay == 1
\* delay: 24 * 60 * 60 * 1000 of the expire-waitlist-confirmation job
WaitlistConfirmationDelay == 2
\* availableSeats: 1 in the payload of the process-waitlist job
AvailableSeatsPerTrigger == 1
\* 45 * 60 * 1000: boarding starts this long before the scheduled departure
BoardingLead == 1
\* const CIRCUIT_BREAKER_THRESHOLD = 5
CIRCUIT_BREAKER_THRESHOLD == 5
\* 5 * 60 * 1000: the pause of the circuit breaker
BreakerCooldown == 1
\* subYears(date, 18)
AdultAge == 18

EventNames == {"booking-expired", "waitlist-confirmed", "flight-status-change", "alert-ops"}

----------------------------------------------------------------------------
(* Rows *)

NoTicket == [flightId |-> 0, seatId |-> 0, ticketStatus |-> "NONE"]

IdleReq == [pc |-> "idle", flightId |-> 0, seatId |-> 0]

IdleWorker == [pc |-> "idle", job |-> 0]

NoPayload == [pc |-> "none", schema |-> "", dateOfBirth |-> 0, today |-> 0, outcome |-> ""]

\* A job as bookingQueue.add creates it.  target is the id in the payload
\* (bookingId, flightId or waitlistId), avail the payload's availableSeats,
\* origin the booking whose release triggered a process-waitlist job.
NewJob(kind, target, origin, avail, delay, attempts) ==
    [kind |-> kind, target |-> target, origin |-> origin, avail |-> avail,
     dueAt |-> now + delay, attempts |-> attempts, attemptsMade |-> 0,
     backoff |-> IF kind = "expire-booking" THEN BackoffDelay ELSE 0,
     status |-> "PENDING", pc |-> "idle", snap |-> <<>>, seen |-> "",
     applied |-> 0, runs |-> 0, stalls |-> 0]

JobIds == 1..Len(jobs)

Bump(f, e) == [f EXCEPT ![e] = @ + 1]

----------------------------------------------------------------------------
(* Booking creation: the business-logic validation, then the rows *)

\* prisma.ticket.count({ where: { flightId, seatId: { in: seatIds } } })
BookedSeats(f, s) ==
    Cardinality({b \in BookingIds : ticket[b].flightId = f /\ ticket[b].seatId = s})

\* if (bookedSeats > 0) throw new Error('Seats already booked')
SeatsAlreadyBooked(f, s) == BookedSeats(f, s) > 0

\* The validation of a create request: the count is awaited, the rows are
\* written by the statements that follow it.
CreateCheck(b, f, s) ==
    /\ req[b].pc = "idle"
    /\ req' = [req EXCEPT ![b] =
                 [pc |-> IF SeatsAlreadyBooked(f, s) THEN "busy" ELSE "checked",
                  flightId |-> f, seatId |-> s]]
    /\ UNCHANGED <<now, booking, ticket, signUp, confirmResp, cancelResp, bookingHistory,
                   waitlist, jobs, notified, failedJobs, flightVars, breakerVars, worker>>

\* Booking (status @default(PENDING)) and Ticket (ticketStatus @default(ISSUED))
\* are created and the expire-booking job is added.
CreateCommit(b) ==
    /\ req[b].pc = "checked"
    /\ booking' = [booking EXCEPT ![b] = "PENDING"]
    /\ ticket' = [ticket EXCEPT ![b] =
                    [flightId |-> req[b].flightId, seatId |-> req[b].seatId,
                     ticketStatus |-> "ISSUED"]]
    /\ jobs' = Append(jobs, NewJob("expire-booking", b, b, 0,
                                   ExpireBookingDelay, ExpireBookingAttempts))
    /\ req' = [req EXCEPT ![b].pc = "held"]
    /\ UNCHANGED <<now, signUp, confirmResp, cancelResp, bookingHistory, waitlist,
                   notified, failedJobs, flightVars, breakerVars, worker>>

----------------------------------------------------------------------------
(* The booking state machine's request entry points *)

AnyStatusPayable(status) == TRUE

\* confirmPayment is valid only from PENDING
CanConfirmPayment(status) == status = "PENDING"

\* confirmPayment(bookingId, paymentResult): valid only from PENDING; one
\* conditional update of the booking row, with its StatusHistory row.
ConfirmPayment(b, success) ==
    /\ booking[b] # "NONE"
    /\ confirmResp[b] = "none"
    /\ IF CanConfirmPayment(booking[b])
       THEN IF success
            THEN /\ booking' = [booking EXCEPT ![b] = "CONFIRMED"]
                 /\ bookingHistory' = [bookingHistory EXCEPT ![b] =
                        Append(@, [oldStatus |-> "PENDING", newStatus |-> "CONFIRMED"])]
                 /\ confirmResp' = [confirmResp EXCEPT ![b] = "ok"]
            ELSE /\ confirmResp' = [confirmResp EXCEPT ![b] = "payment-failed"]
                 /\ UNCHANGED <<booking, bookingHistory>>
       ELSE /\ confirmResp' = [confirmResp EXCEPT ![b] = "InvalidTransition"]
            /\ UNCHANGED <<booking, bookingHistory>>
    /\ UNCHANGED <<now, ticket, req, signUp, cancelResp, waitlist, jobs, notified,
                   failedJobs, flightVars, breakerVars, worker>>

KeepSeatHolds(b) == ticket

\* prisma.ticket.updateMany({ where: { bookingId }, data: { ticketStatus: 'CANCELLED' } })
\* ("Release seat holds"): the ticket keeps its seatId.
ReleaseSeatHolds(b) == [ticket EXCEPT ![b].ticketStatus = "CANCELLED"]

\* The process-waitlist job of "Job creation": { flightId, availableSeats: 1 },
\* { priority: 1, attempts: 5 }
ProcessWaitlistJob(f, b) ==
    NewJob("process-waitlist", f, b, AvailableSeatsPerTrigger, 0, ProcessWaitlistAttempts)

\* ...triggerWaitlistCheck(booking.flightId): the waitlist check for the flight
\* of the booking's ticket, as part of the caller's transaction.
triggerWaitlistCheck(js, b) == Append(js, ProcessWaitlistJob(ticket[b].flightId, b))

\* cancel is valid from PENDING or CONFIRMED
CanCancel(status) == status \in {"PENDING", "CONFIRMED"}

\* cancel(bookingId, actor): valid from PENDING or CONFIRMED; one transaction
\* cancels the booking, marks the tickets CANCELLED (the release), writes the
\* StatusHistory row and triggers the waitlist job ("Trigger: Seat becomes
\* available (booking cancelled, ...)").
Cancel(b) ==
    /\ booking[b] # "NONE"
    /\ cancelResp[b] = "none"
    /\ IF CanCancel(booking[b])
       THEN /\ booking' = [booking EXCEPT ![b] = "CANCELLED"]
            /\ ticket' = ReleaseSeatHolds(b)
            /\ bookingHistory' = [bookingHistory EXCEPT ![b] =
                   Append(@, [oldStatus |-> booking[b], newStatus |-> "CANCELLED"])]
            /\ jobs' = triggerWaitlistCheck(jobs, b)
            /\ cancelResp' = [cancelResp EXCEPT ![b] = "ok"]
       ELSE /\ cancelResp' = [cancelResp EXCEPT ![b] = "InvalidTransition"]
            /\ UNCHANGED <<booking, ticket, bookingHistory, jobs>>
    /\ UNCHANGED <<now, req, signUp, confirmResp, waitlist, notified, failedJobs,
                   flightVars, breakerVars, worker>>

\* complete(bookingId): system-driven once the flights of the booking's
\* tickets have arrived (the arrival is the caller's trigger); valid only from
\* CONFIRMED, one transaction with the StatusHistory row.  A call from any
\* other status is rejected and changes nothing.
CompleteBooking(b) ==
    /\ booking[b] = "CONFIRMED"
    /\ booking' = [booking EXCEPT ![b] = "COMPLETED"]
    /\ bookingHistory' = [bookingHistory EXCEPT ![b] =
           Append(@, [oldStatus |-> "CONFIRMED", newStatus |-> "COMPLETED"])]
    /\ UNCHANGED <<now, ticket, req, signUp, confirmResp, cancelResp, waitlist, jobs,
                   notified, failedJobs, flightVars, breakerVars, worker>>

----------------------------------------------------------------------------
(* The worker: claiming, completing, stalling *)

\* The job names bookingWorker.process registers a processor for.
Processors == {"expire-booking", "process-waitlist", "start-boarding"}

\* A delayed job is not handed to a worker before its delay has passed.
IsDue(job) == job.dueAt <= now

\* bookingWorker.on('failed') of the circuit breaker: count the failure; at
\* the threshold pause the queue and set the timer that resumes it.
BreakerOnFailed ==
    /\ consecutiveFailures' = consecutiveFailures + 1
    /\ failureStreak' = failureStreak + 1
    /\ IF consecutiveFailures + 1 >= CIRCUIT_BREAKER_THRESHOLD
       THEN /\ queuePaused' = TRUE
            /\ resumeTimers' = Append(resumeTimers, now + BreakerCooldown)
       ELSE UNCHANGED <<queuePaused, resumeTimers>>

\* bookingWorker.on('completed') of the circuit breaker
BreakerOnCompleted ==
    /\ consecutiveFailures' = 0
    /\ failureStreak' = 0
    /\ UNCHANGED <<queuePaused, resumeTimers>>

\* The setTimeout callback: consecutiveFailures = 0; bookingQueue.resume()
BreakerTimeout ==
    /\ resumeTimers # <<>>
    /\ Head(resumeTimers) <= now
    /\ consecutiveFailures' = 0
    /\ queuePaused' = FALSE
    /\ resumeTimers' = Tail(resumeTimers)
    /\ failureStreak' = IF queuePaused THEN 0 ELSE failureStreak
    /\ UNCHANGED <<now, booking, ticket, req, signUp, confirmResp, cancelResp, bookingHistory,
                   waitlist, jobs, notified, failedJobs, flightVars, worker>>

\* The job table after job j was made active
Claimed(j) ==
    [jobs EXCEPT ![j].status = "RUNNING", ![j].pc = "start",
                 ![j].snap = <<>>, ![j].seen = "", ![j].runs = @ + 1]

\* A worker takes a waiting job that is due and makes it active; a paused
\* queue hands out no job.
Claim(j) ==
    /\ ~queuePaused
    /\ jobs[j].status = "PENDING"
    /\ jobs[j].kind \in Processors
    /\ IsDue(jobs[j])
    /\ jobs' = Claimed(j)
    /\ UNCHANGED <<now, booking, ticket, req, signUp, confirmResp, cancelResp, bookingHistory,
                   waitlist, notified, failedJobs, flightVars, breakerVars, worker>>

\* The processor's promise resolved: the job is completed.
Complete(j) ==
    /\ jobs[j].status = "RUNNING"
    /\ jobs[j].pc = "returned"
    /\ jobs' = [jobs EXCEPT ![j].status = "DONE", ![j].pc = "idle"]
    /\ BreakerOnCompleted
    /\ UNCHANGED <<now, booking, ticket, req, signUp, confirmResp, cancelResp, bookingHistory,
                   waitlist, notified, failedJobs, flightVars, worker>>

RECURSIVE Stalls(_)
\* How many claims have timed out so far, over the jobs S
Stalls(S) ==
    IF S = {} THEN 0
    ELSE LET j == CHOOSE x \in S : TRUE IN jobs[j].stalls + Stalls(S \ {j})

LeftRunning == "RUNNING"

\* Job claims time out back to PENDING
ClaimTimedOut == "PENDING"

\* The worker died between the claim and the completion: the claim times out
\* and the job waits again (it is delivered a second time).
Stall(j) ==
    /\ jobs[j].status = "RUNNING"
    /\ Stalls(JobIds) < MaxStalls
    /\ jobs' = [jobs EXCEPT ![j].status = ClaimTimedOut, ![j].pc = "idle",
                            ![j].stalls = @ + 1]
    /\ UNCHANGED <<now, booking, ticket, req, signUp, confirmResp, cancelResp, bookingHistory,
                   waitlist, notified, failedJobs, flightVars, breakerVars, worker>>

TickTo(limit) ==
    /\ now < limit
    /\ now' = now + 1
    /\ UNCHANGED <<booking, ticket, req, signUp, confirmResp, cancelResp, bookingHistory,
                   waitlist, jobs, notified, failedJobs, flightVars, breakerVars, worker>>

Tick == TickTo(MaxTime)

\* Something is waiting for the clock: a delayed job or a timer of the breaker
Waiting ==
    \/ \E j \in JobIds : jobs[j].status = "PENDING" /\ ~IsDue(jobs[j])
    \/ resumeTimers # <<>> /\ Head(resumeTimers) > now

\* Time passes while something waits for it.
TickWaiting ==
    /\ Waiting
    /\ now' = now + 1
    /\ UNCHANGED <<booking, ticket, req, signUp, confirmResp, cancelResp, bookingHistory,
                   waitlist, jobs, notified, failedJobs, flightVars, breakerVars, worker>>

----------------------------------------------------------------------------
(* bookingWorker.process('expire-booking') *)

StillPendingOrPaid(status) == status \in {"PENDING", "CONFIRMED"}

\* if (booking.status === 'PENDING')
StillPending(status) == status = "PENDING"

\* const booking = await prisma.booking.findUnique(...), and the test of its status
ExpireRead(j) ==
    /\ jobs[j].kind = "expire-booking"
    /\ jobs[j].status = "RUNNING"
    /\ jobs[j].pc = "start"
    /\ jobs' = [jobs EXCEPT ![j].seen = booking[jobs[j].target],
                            ![j].pc = IF StillPending(booking[jobs[j].target])
                                      THEN "read" ELSE "returned"]
    /\ UNCHANGED <<now, booking, ticket, req, signUp, confirmResp, cancelResp, bookingHistory,
                   waitlist, notified, failedJobs, flightVars, breakerVars, worker>>

\* await prisma.$transaction([booking.update, ticket.updateMany,
\* ...triggerWaitlistCheck]) and notificationQueue.add('booking-expired').
\* The update is keyed on the id alone: it does not test the status again.
ExpireCommit(j) ==
    /\ jobs[j].kind = "expire-booking"
    /\ jobs[j].status = "RUNNING"
    /\ jobs[j].pc = "read"
    /\ booking' = [booking EXCEPT ![jobs[j].target] = "CANCELLED"]
    /\ ticket' = ReleaseSeatHolds(jobs[j].target)
    /\ jobs' = triggerWaitlistCheck(
                  [jobs EXCEPT ![j].pc = "returned", ![j].applied = @ + 1],
                  jobs[j].target)
    /\ notified' = Bump(notified, "booking-expired")
    /\ UNCHANGED <<now, req, signUp, confirmResp, cancelResp, bookingHistory, waitlist,
                   failedJobs, flightVars, breakerVars, worker>>

----------------------------------------------------------------------------
(* The waitlist and bookingWorker.process('process-waitlist') *)

WaitlistIds == 1..Len(waitlist)

\* A passenger joins the waitlist of a flight that has no seat left to book:
\* status @default(ACTIVE), createdAt @default(now()), waitlistRank given.
Enroll(f, r) ==
    /\ Len(waitlist) < MaxWaitlist
    /\ \A s \in Seats : SeatsAlreadyBooked(f, s)
    /\ waitlist' = Append(waitlist, [flightId |-> f, waitlistRank |-> r, status |-> "ACTIVE",
                                     converted |-> FALSE])
    /\ UNCHANGED <<now, booking, ticket, req, signUp, confirmResp, cancelResp, bookingHistory,
                   jobs, notified, failedJobs, flightVars, breakerVars, worker>>

\* orderBy: [{ waitlistRank: 'asc' }, { createdAt: 'asc' }]
OrderedBefore(a, b) ==
    \/ waitlist[a].waitlistRank < waitlist[b].waitlistRank
    \/ waitlist[a].waitlistRank = waitlist[b].waitlistRank /\ a < b

\* where: { flightId, status: 'ACTIVE' }
ActiveOn(f) == {w \in WaitlistIds : waitlist[w].flightId = f /\ waitlist[w].status = "ACTIVE"}

RECURSIVE TakeOrdered(_, _)
\* The first n rows of S in (waitlistRank, createdAt) order (take: availableSeats)
TakeOrdered(S, n) ==
    IF n = 0 \/ S = {} THEN <<>>
    ELSE LET first == CHOOSE x \in S : \A y \in S \ {x} : OrderedBefore(x, y)
         IN <<first>> \o TakeOrdered(S \ {first}, n - 1)

\* const waitlistPassengers = await prisma.waitlist.findMany(...)
WaitlistRead(j) ==
    /\ jobs[j].kind = "process-waitlist"
    /\ jobs[j].status = "RUNNING"
    /\ jobs[j].pc = "start"
    /\ LET found == TakeOrdered(ActiveOn(jobs[j].target), jobs[j].avail)
       IN jobs' = [jobs EXCEPT ![j].snap = found,
                               ![j].pc = IF found = <<>> THEN "returned" ELSE "read"]
    /\ UNCHANGED <<now, booking, ticket, req, signUp, confirmResp, cancelResp, bookingHistory,
                   waitlist, notified, failedJobs, flightVars, breakerVars, worker>>

\* One round of the for loop: waitlist.update to CONFIRMED (keyed on the id
\* alone), notificationQueue.add('waitlist-confirmed'), and the
\* expire-waitlist-confirmation job.
WaitlistConfirm(j) ==
    /\ jobs[j].kind = "process-waitlist"
    /\ jobs[j].status = "RUNNING"
    /\ jobs[j].pc = "read"
    /\ LET w == Head(jobs[j].snap)
           rest == Tail(jobs[j].snap)
       IN /\ waitlist' = [waitlist EXCEPT ![w].status = "CONFIRMED"]
          /\ jobs' = Append([jobs EXCEPT ![j].snap = rest,
                                         ![j].applied = @ + 1,
                                         ![j].pc = IF rest = <<>> THEN "returned" ELSE "read"],
                            NewJob("expire-waitlist-confirmation", w, jobs[j].origin, 0,
                                   WaitlistConfirmationDelay, 1))
    /\ notified' = Bump(notified, "waitlist-confirmed")
    /\ UNCHANGED <<now, booking, ticket, req, signUp, confirmResp, cancelResp, bookingHistory,
                   failedJobs, flightVars, breakerVars, worker>>

----------------------------------------------------------------------------
(* The confirmed waitlist entry: purchase, or expiry of the confirmation *)

\* The confirmed passenger buys the ticket ("Join waitlist, seat available,
\* purchase ticket"): the entry is converted to a booking.
Convert(w) ==
    /\ waitlist[w].status = "CONFIRMED"
    /\ ~waitlist[w].converted
    /\ waitlist' = [waitlist EXCEPT ![w].converted = TRUE]
    /\ UNCHANGED <<now, booking, ticket, req, signUp, confirmResp, cancelResp, bookingHistory,
                   jobs, notified, failedJobs, flightVars, breakerVars, worker>>

\* A worker takes an expire-waitlist-confirmation job that is due.
ClaimConfirmationExpiry(j) ==
    /\ ~queuePaused
    /\ jobs[j].status = "PENDING"
    /\ jobs[j].kind = "expire-waitlist-confirmation"
    /\ IsDue(jobs[j])
    /\ jobs' = Claimed(j)
    /\ UNCHANGED <<now, booking, ticket, req, signUp, confirmResp, cancelResp, bookingHistory,
                   waitlist, notified, failedJobs, flightVars, breakerVars, worker>>

AnyEntryExpires(entry) == TRUE

\* The entry is still CONFIRMED and was not converted to a booking
ConfirmationLapsed(entry) == entry.status = "CONFIRMED" /\ ~entry.converted

\* The confirmation-expiry job: an entry that is still CONFIRMED and not
\* converted becomes EXPIRED and promotion is invoked again for the seat it
\* gives back; otherwise nothing is done.
ExpireConfirmation(j) ==
    /\ jobs[j].kind = "expire-waitlist-confirmation"
    /\ jobs[j].status = "RUNNING"
    /\ jobs[j].pc = "start"
    /\ LET w == jobs[j].target
       IN IF ConfirmationLapsed(waitlist[w])
          THEN /\ waitlist' = [waitlist EXCEPT ![w].status = "EXPIRED"]
               /\ jobs' = Append([jobs EXCEPT ![j].pc = "returned", ![j].applied = @ + 1],
                                 ProcessWaitlistJob(waitlist[w].flightId, jobs[j].origin))
          ELSE /\ jobs' = [jobs EXCEPT ![j].pc = "returned"]
               /\ UNCHANGED waitlist
    /\ UNCHANGED <<now, booking, ticket, req, signUp, confirmResp, cancelResp, bookingHistory,
                   notified, failedJobs, flightVars, breakerVars, worker>>

----------------------------------------------------------------------------
(* Retries and the dead letter queue *)

\* The job names whose retry options the source states in full.
RetriedJobs == {"expire-booking", "process-waitlist"}

\* A queue fed by any producer, with the options the source adds each job
\* with (expire-booking: delay, attempts 3, exponential backoff;
\* process-waitlist: attempts 5, no backoff).
EnqueueUpTo(limit, kind) ==
    /\ Len(jobs) < limit
    /\ jobs' = Append(jobs,
          IF kind = "expire-booking"
          THEN NewJob(kind, 1, 1, 0, ExpireBookingDelay, ExpireBookingAttempts)
          ELSE NewJob(kind, 1, 1, AvailableSeatsPerTrigger, 0, ProcessWaitlistAttempts))
    /\ UNCHANGED <<now, booking, ticket, req, signUp, confirmResp, cancelResp, bookingHistory,
                   waitlist, notified, failedJobs, flightVars, breakerVars, worker>>

EnqueueJob(kind) == EnqueueUpTo(MaxJobs, kind)

\* The same producers, feeding the queue a pool of workers serves: one job
\* of each kind.
EnqueuePoolJob(kind) ==
    /\ ~\E j \in JobIds : jobs[j].kind = kind
    /\ EnqueueUpTo(Cardinality(RetriedJobs), kind)

\* The waitlist check of a flight is asked for (a seat became available).
EnqueueWaitlistCheck(f) ==
    /\ Len(jobs) < MaxBreakerJobs
    /\ jobs' = Append(jobs, ProcessWaitlistJob(f, 0))
    /\ UNCHANGED <<now, booking, ticket, req, signUp, confirmResp, cancelResp, bookingHistory,
                   waitlist, notified, failedJobs, flightVars, breakerVars, worker>>

RECURSIVE Pow2(_)
Pow2(n) == IF n <= 0 THEN 1 ELSE 2 * Pow2(n - 1)

FixedBackoff(delay, attemptsMade) == delay

DoubledBackoff(delay, attemptsMade) == delay * Pow2(attemptsMade)

\* backoff: { type: 'exponential', delay: 2000 }  // 2s, 4s, 8s
ExponentialBackoff(delay, attemptsMade) == delay * Pow2(attemptsMade - 1)

\* The largest delay the retry configuration lists (8 s); no cap is configured.
LargestListedBackoff == ExponentialBackoff(BackoffDelay, ExpireBookingAttempts)

\* A failed job is tried again while it has made fewer attempts than its
\* attempts option allows.
ShouldRetry(attemptsMade, attempts) == attemptsMade < attempts

FailedAtAll(attemptsMade, attempts) == attemptsMade >= 1

\* if (job.attemptsMade >= job.opts.attempts)
AttemptsExhausted(attemptsMade, attempts) == attemptsMade >= attempts

\* The processor resolved.
HandlerReturns(j) ==
    /\ jobs[j].status = "RUNNING"
    /\ jobs[j].pc = "start"
    /\ jobs' = [jobs EXCEPT ![j].pc = "returned"]
    /\ UNCHANGED <<now, booking, ticket, req, signUp, confirmResp, cancelResp, bookingHistory,
                   waitlist, notified, failedJobs, flightVars, breakerVars, worker>>

\* The processor threw: the attempt is counted, the job is delayed by its
\* backoff or fails for good, bookingWorker.on('failed') records a job
\* that has used up its attempts and alerts operations, and the circuit
\* breaker's listener counts the failure.
FailJob(j) ==
    /\ LET made == jobs[j].attemptsMade + 1
           dead == AttemptsExhausted(made, jobs[j].attempts)
       IN /\ jobs' = [jobs EXCEPT ![j] =
                IF ShouldRetry(made, jobs[j].attempts)
                THEN [@ EXCEPT !.attemptsMade = made, !.status = "PENDING", !.pc = "idle",
                               !.dueAt = now + ExponentialBackoff(jobs[j].backoff, made)]
                ELSE [@ EXCEPT !.attemptsMade = made, !.status = "DEAD", !.pc = "idle"]]
          /\ failedJobs' = IF dead THEN Append(failedJobs, j) ELSE failedJobs
          /\ notified' = IF dead THEN Bump(notified, "alert-ops") ELSE notified
    /\ BreakerOnFailed

\* The processor of job j threw.
HandlerThrows(j) ==
    /\ jobs[j].status = "RUNNING"
    /\ jobs[j].pc = "start"
    /\ FailJob(j)
    /\ UNCHANGED <<now, booking, ticket, req, signUp, confirmResp, cancelResp, bookingHistory,
                   waitlist, flightVars, worker>>

----------------------------------------------------------------------------
(* The dispatch loop of the worker pool *)

\* The PENDING jobs whose dueAt <= now
DueJobs ==
    {j \in JobIds : /\ jobs[j].status = "PENDING"
                    /\ jobs[j].kind \in Processors
                    /\ IsDue(jobs[j])}

\* ...and the earliest of them
EarliestDue == {j \in DueJobs : \A k \in DueJobs : jobs[j].dueAt <= jobs[k].dueAt}

\* A worker of the pool looks for the earliest due PENDING job.
WorkerPoll(w, j) ==
    /\ worker[w].pc \in {"idle", "lost"}
    /\ ~queuePaused
    /\ j \in EarliestDue
    /\ worker' = [worker EXCEPT ![w] = [pc |-> "picked", job |-> j]]
    /\ UNCHANGED <<now, booking, ticket, req, signUp, confirmResp, cancelResp, bookingHistory,
                   waitlist, jobs, notified, failedJobs, flightVars, breakerVars>>

SwapsWhatever(status) == TRUE

\* The compare of the compare-and-swap on the job's status
CompareAndSwap(status) == status = "PENDING"

\* The worker tries to make the job it picked RUNNING; if the job is not
\* PENDING any more the swap fails and the worker goes back to polling
\* without running the handler.
WorkerClaim(w) ==
    /\ worker[w].pc = "picked"
    /\ IF CompareAndSwap(jobs[worker[w].job].status)
       THEN /\ jobs' = Claimed(worker[w].job)
            /\ worker' = [worker EXCEPT ![w].pc = "running"]
       ELSE /\ worker' = [worker EXCEPT ![w].pc = "lost"]
            /\ UNCHANGED jobs
    /\ UNCHANGED <<now, booking, ticket, req, signUp, confirmResp, cancelResp, bookingHistory,
                   waitlist, notified, failedJobs, flightVars, breakerVars>>

\* The handler the worker ran succeeded: job -> DONE, and the worker is free.
WorkerReturns(w) ==
    /\ worker[w].pc = "running"
    /\ jobs' = [jobs EXCEPT ![worker[w].job].status = "DONE", ![worker[w].job].pc = "idle"]
    /\ worker' = [worker EXCEPT ![w] = IdleWorker]
    /\ BreakerOnCompleted
    /\ UNCHANGED <<now, booking, ticket, req, signUp, confirmResp, cancelResp, bookingHistory,
                   waitlist, notified, failedJobs, flightVars>>

WorkerGone == [pc |-> "crashed", job |-> 0]

\* Exceptions are caught per job: the worker whose handler threw is free again.
WorkerAfterFailure == IdleWorker

\* The handler the worker ran threw: the failure is the job's (attempt
\* counted, retry or dead letter, breaker listener), the worker goes on.
WorkerThrows(w) ==
    /\ worker[w].pc = "running"
    /\ FailJob(worker[w].job)
    /\ worker' = [worker EXCEPT ![w] = WorkerAfterFailure]
    /\ UNCHANGED <<now, booking, ticket, req, signUp, confirmResp, cancelResp, bookingHistory,
                   waitlist, flightVars>>

\* Long enough for a job enqueued at MaxTime to use up three attempts.
RetryHorizon == MaxTime + ExpireBookingDelay + ExponentialBackoff(BackoffDelay, 1)
                  + ExponentialBackoff(BackoffDelay, 2)

TickJobs == TickTo(RetryHorizon)

----------------------------------------------------------------------------
(* Flight status: scheduled jobs and staff actions *)

FlightStatuses == {"SCHEDULED", "BOARDING", "DEPARTED", "IN_FLIGHT", "LANDED",
                   "ARRIVED", "DELAYED", "CANCELLED"}

\* scheduleFlightStatusJobs(flight): one delayed job per milestone whose
\* delay is still positive.
FlightJobs(f) ==
    LET plan == << [name |-> "start-boarding",
                    delay |-> ScheduledDepart - now - BoardingLead],
                   [name |-> "depart-flight", delay |-> ScheduledDepart - now],
                   [name |-> "arrive-flight", delay |-> ScheduledArrive - now] >>
        due == SelectSeq(plan, LAMBDA job : job.delay > 0)
    IN [i \in 1..Len(due) |-> NewJob(due[i].name, f, 0, 0, due[i].delay, 1)]

scheduleFlightStatusJobs(f) ==
    /\ flight[f] = "SCHEDULED"
    /\ ~\E j \in JobIds : jobs[j].target = f /\ jobs[j].kind = "arrive-flight"
    /\ FlightJobs(f) # <<>>
    /\ jobs' = jobs \o FlightJobs(f)
    /\ UNCHANGED <<now, booking, ticket, req, signUp, confirmResp, cancelResp, bookingHistory,
                   waitlist, notified, failedJobs, flightVars, breakerVars, worker>>

\* The allowed-next-states table: the chain SCHEDULED, BOARDING, DEPARTED,
\* IN_FLIGHT, LANDED, ARRIVED, and DELAYED and CANCELLED from any status
\* before ARRIVED.
AllowedNext(status) ==
    (CASE status = "SCHEDULED" -> {"BOARDING"}
       [] status = "BOARDING" -> {"DEPARTED"}
       [] status = "DEPARTED" -> {"IN_FLIGHT"}
       [] status = "IN_FLIGHT" -> {"LANDED"}
       [] status = "LANDED" -> {"ARRIVED"}
       [] OTHER -> {})
    \cup (IF status \in {"ARRIVED", "CANCELLED"} THEN {}
          ELSE {"DELAYED", "CANCELLED"} \ {status})

\* transition(flightId, newStatus) by staff: one transaction changes the
\* status and writes the history row; the status change is notified.
StaffTransition(f, newStatus) ==
    /\ IF newStatus \in AllowedNext(flight[f])
       THEN /\ flight' = [flight EXCEPT ![f] = newStatus]
            /\ flightHistory' = Append(flightHistory,
                   [flightId |-> f, oldStatus |-> flight[f], newStatus |-> newStatus])
            /\ flightResp' = [flightResp EXCEPT ![f] = "ok"]
            /\ notified' = Bump(notified, "flight-status-change")
       ELSE /\ flightResp' = [flightResp EXCEPT ![f] = "InvalidTransition"]
            /\ UNCHANGED <<flight, flightHistory, notified>>
    /\ UNCHANGED <<now, booking, ticket, req, signUp, confirmResp, cancelResp, bookingHistory,
                   waitlist, jobs, failedJobs, breakerVars, worker>>

NotYetBoarding(status) == status # "BOARDING"

\* if (flight.status === 'SCHEDULED')
StatusAllowsBoarding(status) == status = "SCHEDULED"

\* const flight = await prisma.flight.findUnique(...), and the test of its status
StartBoardingRead(j) ==
    /\ jobs[j].kind = "start-boarding"
    /\ jobs[j].status = "RUNNING"
    /\ jobs[j].pc = "start"
    /\ jobs' = [jobs EXCEPT ![j].seen = flight[jobs[j].target],
                            ![j].pc = IF StatusAllowsBoarding(flight[jobs[j].target])
                                      THEN "read" ELSE "returned"]
    /\ UNCHANGED <<now, booking, ticket, req, signUp, confirmResp, cancelResp, bookingHistory,
                   waitlist, notified, failedJobs, flightVars, breakerVars, worker>>

\* await prisma.$transaction([flight.update, flightStatusHistory.create]) and
\* notificationQueue.add('flight-status-change').  The update is keyed on the
\* id alone; oldStatus is the status that was read.
StartBoardingCommit(j) ==
    /\ jobs[j].kind = "start-boarding"
    /\ jobs[j].status = "RUNNING"
    /\ jobs[j].pc = "read"
    /\ flight' = [flight EXCEPT ![jobs[j].target] = "BOARDING"]
    /\ flightHistory' = Append(flightHistory,
           [flightId |-> jobs[j].target, oldStatus |-> jobs[j].seen,
            newStatus |-> "BOARDING"])
    /\ jobs' = [jobs EXCEPT ![j].pc = "returned", ![j].applied = @ + 1]
    /\ notified' = Bump(notified, "flight-status-change")
    /\ UNCHANGED <<now, booking, ticket, req, signUp, confirmResp, cancelResp, bookingHistory,
                   waitlist, failedJobs, flightResp, breakerVars, worker>>

ClaimStartBoarding(j) == jobs[j].kind = "start-boarding" /\ Claim(j)

\* The names and the status of the jobs scheduleFlightStatusJobs adds
FlightJobNames == {"start-boarding", "depart-flight", "arrive-flight"}

MilestoneStatus(kind) ==
    CASE kind = "start-boarding" -> "BOARDING"
      [] kind = "depart-flight" -> "DEPARTED"
      [] kind = "arrive-flight" -> "ARRIVED"

\* The scheduled jobs of a flight fire in due order, one after the other: a
\* worker takes the job when it is due, no job of the flight that is due
\* earlier still waits, and none is running.
ClaimFlightJob(j) ==
    /\ ~queuePaused
    /\ jobs[j].status = "PENDING"
    /\ jobs[j].kind \in FlightJobNames
    /\ IsDue(jobs[j])
    /\ \A k \in JobIds \ {j} :
          (jobs[k].kind \in FlightJobNames /\ jobs[k].target = jobs[j].target)
          => /\ jobs[k].status # "RUNNING"
             /\ jobs[k].status = "PENDING" => jobs[k].dueAt >= jobs[j].dueAt
    /\ jobs' = Claimed(j)
    /\ UNCHANGED <<now, booking, ticket, req, signUp, confirmResp, cancelResp, bookingHistory,
                   waitlist, notified, failedJobs, flightVars, breakerVars, worker>>

\* The depart-flight and arrive-flight processors, after the pattern of
\* start-boarding: read the flight, "only update if status progression is
\* valid" ...
MilestoneRead(j) ==
    /\ jobs[j].kind \in {"depart-flight", "arrive-flight"}
    /\ jobs[j].status = "RUNNING"
    /\ jobs[j].pc = "start"
    /\ jobs' = [jobs EXCEPT ![j].seen = flight[jobs[j].target],
                            ![j].pc = IF MilestoneStatus(jobs[j].kind)
                                            \in AllowedNext(flight[jobs[j].target])
                                      THEN "read" ELSE "returned"]
    /\ UNCHANGED <<now, booking, ticket, req, signUp, confirmResp, cancelResp, bookingHistory,
                   waitlist, notified, failedJobs, flightVars, breakerVars, worker>>

\* ... then the transaction (flight.update to job.data.newStatus, history
\* row) and the notification.
MilestoneCommit(j) ==
    /\ jobs[j].kind \in {"depart-flight", "arrive-flight"}
    /\ jobs[j].status = "RUNNING"
    /\ jobs[j].pc = "read"
    /\ flight' = [flight EXCEPT ![jobs[j].target] = MilestoneStatus(jobs[j].kind)]
    /\ flightHistory' = Append(flightHistory,
           [flightId |-> jobs[j].target, oldStatus |-> jobs[j].seen,
            newStatus |-> MilestoneStatus(jobs[j].kind)])
    /\ jobs' = [jobs EXCEPT ![j].pc = "returned", ![j].applied = @ + 1]
    /\ notified' = Bump(notified, "flight-status-change")
    /\ UNCHANGED <<now, booking, ticket, req, signUp, confirmResp, cancelResp, bookingHistory,
                   waitlist, failedJobs, flightResp, breakerVars, worker>>

TickFlight == TickTo(ScheduledArrive)

----------------------------------------------------------------------------
(* The validation layer: signUpSchema and createUserSchema *)

Schemas == {"signUp", "createUser"}

BirthDates == 0..MaxBirthDate

\* The dates a payload can arrive on: from just under to just over 18 years
\* after the dates of birth.
Todays == (AdultAge * DaysPerYear - 1)..(AdultAge * DaysPerYear + MaxBirthDate + 1)

\* date-fns
subYears(date, amount) == date - amount * DaysPerYear

isBefore(date, dateToCompare) == date < dateToCompare

isEqual(leftDate, rightDate) == leftDate = rightDate

\* The refine of dateOfBirth, the same in both schemas
DateOfBirthRefine(date) ==
    LET boundary == subYears(date, AdultAge)
    IN isBefore(date, boundary) \/ isEqual(date, boundary)

\* A payload that is valid in every other field arrives.
ReceivePayload(schema, dateOfBirth, today) ==
    /\ signUp.pc = "none"
    /\ signUp' = [pc |-> "received", schema |-> schema, dateOfBirth |-> dateOfBirth,
                  today |-> today, outcome |-> ""]
    /\ UNCHANGED <<now, booking, ticket, req, confirmResp, cancelResp, bookingHistory,
                   waitlist, jobs, notified, failedJobs, flightVars, breakerVars, worker>>

\* safeParse, and BadRequestError if it did not succeed
Validate(schema) ==
    /\ signUp.pc = "received"
    /\ signUp.schema = schema
    /\ signUp' = [signUp EXCEPT !.pc = "validated",
                                !.outcome = IF DateOfBirthRefine(signUp.dateOfBirth)
                                            THEN "parsed" ELSE "BadRequestError"]
    /\ UNCHANGED <<now, booking, ticket, req, confirmResp, cancelResp, bookingHistory,
                   waitlist, jobs, notified, failedJobs, flightVars, breakerVars, worker>>

validateSignUpPayload == Validate("signUp")

validateCreateUserPayload == Validate("createUser")

\* The endpoint is ready for the next payload.
NextPayload ==
    /\ signUp.pc = "validated"
    /\ signUp' = NoPayload
    /\ UNCHANGED <<now, booking, ticket, req, confirmResp, cancelResp, bookingHistory,
                   waitlist, jobs, notified, failedJobs, flightVars, breakerVars, worker>>

----------------------------------------------------------------------------
(* The system of bookings, seats, waitlist and their jobs *)

Init ==
    /\ now = 0
    /\ booking = [b \in BookingIds |-> "NONE"]
    /\ ticket = [b \in BookingIds |-> NoTicket]
    /\ req = [b \in BookingIds |-> IdleReq]
    /\ confirmResp = [b \in BookingIds |-> "none"]
    /\ cancelResp = [b \in BookingIds |-> "none"]
    /\ bookingHistory = [b \in BookingIds |-> <<>>]
    /\ waitlist = <<>>
    /\ jobs = <<>>
    /\ notified = [e \in EventNames |-> 0]
    /\ failedJobs = <<>>
    /\ flight = [f \in Flights |-> "SCHEDULED"]
    /\ flightHistory = <<>>
    /\ flightResp = [f \in Flights |-> "none"]
    /\ consecutiveFailures = 0
    /\ queuePaused = FALSE
    /\ resumeTimers = <<>>
    /\ failureStreak = 0
    /\ worker = [w \in Workers |-> IdleWorker]
    /\ signUp = NoPayload

\* The worker slots of the booking queue, by the job name they serve.
ClaimExpireBooking(j) == jobs[j].kind = "expire-booking" /\ Claim(j)

ClaimProcessWaitlist(j) == jobs[j].kind = "process-waitlist" /\ Claim(j)

\* Bookings, payments, cancellations and the expiry jobs.
Next ==
    \/ \E b \in BookingIds, f \in Flights, s \in Seats : CreateCheck(b, f, s)
    \/ \E b \in BookingIds : CreateCommit(b)
    \/ \E b \in BookingIds, success \in BOOLEAN : ConfirmPayment(b, success)
    \/ \E b \in BookingIds : Cancel(b)
    \/ \E j \in JobIds : ClaimExpireBooking(j)
    \/ \E j \in JobIds : ExpireRead(j)
    \/ \E j \in JobIds : ExpireCommit(j)
    \/ \E j \in JobIds : Complete(j)
    \/ \E j \in JobIds : Stall(j)
    \/ Tick

Spec == Init /\ [][Next]_vars

\* Bookings, cancellations, the waitlist and its promotion jobs.
NextWaitlist ==
    \/ \E b \in BookingIds, f \in Flights, s \in Seats : CreateCheck(b, f, s)
    \/ \E b \in BookingIds : CreateCommit(b)
    \/ \E b \in BookingIds : Cancel(b)
    \/ \E f \in Flights, r \in Ranks : Enroll(f, r)
    \/ \E j \in JobIds : ClaimProcessWaitlist(j)
    \/ \E j \in JobIds : WaitlistRead(j)
    \/ \E j \in JobIds : WaitlistConfirm(j)
    \/ \E j \in JobIds : Complete(j)

SpecWaitlist == Init /\ [][NextWaitlist]_vars

\* A queue whose processors throw or resolve: retries and dead letters.
NextJobs ==
    \/ \E kind \in RetriedJobs : EnqueueJob(kind)
    \/ \E j \in JobIds : Claim(j)
    \/ \E j \in JobIds : HandlerReturns(j)
    \/ \E j \in JobIds : HandlerThrows(j)
    \/ \E j \in JobIds : Complete(j)
    \/ BreakerTimeout
    \/ TickJobs

SpecJobs == Init /\ [][NextJobs]_vars

\* Retries with worker crashes between claim and completion.
NextRecovery ==
    \/ \E kind \in RetriedJobs : EnqueueJob(kind)
    \/ \E j \in JobIds : Claim(j)
    \/ \E j \in JobIds : HandlerReturns(j)
    \/ \E j \in JobIds : HandlerThrows(j)
    \/ \E j \in JobIds : Complete(j)
    \/ \E j \in JobIds : Stall(j)
    \/ BreakerTimeout
    \/ Tick
    \/ TickWaiting

\* Fair scheduling: a job that can be claimed is claimed, a handler that was
\* started resolves or throws, a resolved job is completed, timers fire and
\* time passes while something waits.  Crashes are not forced to happen.
FairRecovery ==
    /\ \A j \in 1..MaxJobs :
          /\ WF_vars(j \in JobIds /\ Claim(j))
          /\ WF_vars(j \in JobIds /\ (HandlerReturns(j) \/ HandlerThrows(j)))
          /\ WF_vars(j \in JobIds /\ Complete(j))
    /\ WF_vars(BreakerTimeout)
    /\ WF_vars(TickWaiting)

SpecRecovery == Init /\ [][NextRecovery]_vars /\ FairRecovery

\* A queue of waitlist checks whose processors throw or resolve, behind the
\* circuit breaker.
NextBreaker ==
    \/ \E f \in Flights : EnqueueWaitlistCheck(f)
    \/ \E j \in JobIds : Claim(j)
    \/ \E j \in JobIds : HandlerReturns(j)
    \/ \E j \in JobIds : HandlerThrows(j)
    \/ \E j \in JobIds : Complete(j)
    \/ BreakerTimeout
    \/ TickWaiting

SpecBreaker == Init /\ [][NextBreaker]_vars

\* A pool of workers running the dispatch loop on one queue.
NextDispatch ==
    \/ \E kind \in RetriedJobs : EnqueueJob(kind)
    \/ \E w \in Workers, j \in JobIds : WorkerPoll(w, j)
    \/ \E w \in Workers : WorkerClaim(w)
    \/ \E w \in Workers : WorkerReturns(w)
    \/ TickJobs

SpecDispatch == Init /\ [][NextDispatch]_vars

\* A pool of workers on a queue whose handlers resolve or throw.
NextPool ==
    \/ \E kind \in RetriedJobs : EnqueuePoolJob(kind)
    \/ \E w \in Workers, j \in JobIds : WorkerPoll(w, j)
    \/ \E w \in Workers : WorkerClaim(w)
    \/ \E w \in Workers : WorkerReturns(w)
    \/ \E w \in Workers : WorkerThrows(w)
    \/ BreakerTimeout
    \/ TickWaiting

SpecPool == Init /\ [][NextPool]_vars

\* The waitlist with purchases and confirmations that run out: one booking
\* fills the flight and its cancellation frees the seat, so that promotions
\* follow one another.
NextExpiry ==
    \/ \E f \in Flights, s \in Seats : CreateCheck(1, f, s)
    \/ CreateCommit(1)
    \/ Cancel(1)
    \/ \E f \in Flights, r \in Ranks : Enroll(f, r)
    \/ \E j \in JobIds : ClaimProcessWaitlist(j)
    \/ \E j \in JobIds : WaitlistRead(j)
    \/ \E j \in JobIds : WaitlistConfirm(j)
    \/ \E w \in WaitlistIds : Convert(w)
    \/ \E j \in JobIds : ClaimConfirmationExpiry(j)
    \/ \E j \in JobIds : ExpireConfirmation(j)
    \/ \E j \in JobIds : Complete(j)
    \/ TickWaiting

\* Fair job execution: due jobs are claimed, started handlers run to their
\* end, and time passes while a job waits for it.
FairExpiry ==
    /\ WF_vars(\E j \in JobIds : ClaimProcessWaitlist(j))
    /\ WF_vars(\E j \in JobIds : WaitlistRead(j) \/ WaitlistConfirm(j))
    /\ WF_vars(\E j \in JobIds : ClaimConfirmationExpiry(j))
    /\ WF_vars(\E j \in JobIds : ExpireConfirmation(j))
    /\ WF_vars(\E j \in JobIds : Complete(j))
    /\ WF_vars(TickWaiting)

SpecExpiry == Init /\ [][NextExpiry]_vars /\ FairExpiry

\* A booking and its expiry job on a store that can fail the handler.
NextPending ==
    \/ \E f \in Flights, s \in Seats : CreateCheck(1, f, s)
    \/ CreateCommit(1)
    \/ \E success \in BOOLEAN : ConfirmPayment(1, success)
    \/ Cancel(1)
    \/ \E j \in JobIds : ClaimExpireBooking(j)
    \/ \E j \in JobIds : ExpireRead(j)
    \/ \E j \in JobIds : ExpireCommit(j)
    \/ \E j \in JobIds : HandlerThrows(j)
    \/ \E j \in JobIds : Complete(j)
    \/ TickWaiting

\* Fair job execution: a due job is claimed, a started handler runs (it
\* reads or throws, then commits), a resolved job is completed and time
\* passes while a job waits.  Requests of clients are not forced to happen.
FairPending ==
    /\ \A b \in BookingIds :
          /\ WF_vars(\E j \in JobIds : jobs[j].target = b /\ ClaimExpireBooking(j))
          /\ WF_vars(\E j \in JobIds :
                        jobs[j].target = b /\ (ExpireRead(j) \/ HandlerThrows(j)))
          /\ WF_vars(\E j \in JobIds : jobs[j].target = b /\ ExpireCommit(j))
          /\ WF_vars(\E j \in JobIds : jobs[j].target = b /\ Complete(j))
    /\ WF_vars(TickWaiting)

SpecPending == Init /\ [][NextPending]_vars /\ FairPending

\* A flight whose scheduled jobs all have a processor and fire in due order.
NextSchedule ==
    \/ \E f \in Flights : scheduleFlightStatusJobs(f)
    \/ \E f \in Flights, newStatus \in FlightStatuses : StaffTransition(f, newStatus)
    \/ \E j \in JobIds : ClaimFlightJob(j)
    \/ \E j \in JobIds : StartBoardingRead(j)
    \/ \E j \in JobIds : StartBoardingCommit(j)
    \/ \E j \in JobIds : MilestoneRead(j)
    \/ \E j \in JobIds : MilestoneCommit(j)
    \/ \E j \in JobIds : Complete(j)
    \/ TickFlight

SpecSchedule == Init /\ [][NextSchedule]_vars

\* The validation of sign-up and create-user payloads.
NextValidation ==
    \/ \E schema \in Schemas, dateOfBirth \in BirthDates, today \in Todays :
          ReceivePayload(schema, dateOfBirth, today)
    \/ validateSignUpPayload
    \/ validateCreateUserPayload
    \/ NextPayload

SpecValidation == Init /\ [][NextValidation]_vars

\* The whole booking lifecycle: every entry point of the booking state
\* machine and the expiry job.
NextLifecycle ==
    \/ \E b \in BookingIds, f \in Flights, s \in Seats : CreateCheck(b, f, s)
    \/ \E b \in BookingIds : CreateCommit(b)
    \/ \E b \in BookingIds, success \in BOOLEAN : ConfirmPayment(b, success)
    \/ \E b \in BookingIds : Cancel(b)
    \/ \E b \in BookingIds : CompleteBooking(b)
    \/ \E j \in JobIds : ClaimExpireBooking(j)
    \/ \E j \in JobIds : ExpireRead(j)
    \/ \E j \in JobIds : ExpireCommit(j)
    \/ \E j \in JobIds : Complete(j)
    \/ Tick

SpecLifecycle == Init /\ [][NextLifecycle]_vars

\* Flights, their scheduled status jobs and staff transitions.
NextFlight ==
    \/ \E f \in Flights : scheduleFlightStatusJobs(f)
    \/ \E f \in Flights, newStatus \in FlightStatuses : StaffTransition(f, newStatus)
    \/ \E j \in JobIds : ClaimStartBoarding(j)
    \/ \E j \in JobIds : StartBoardingRead(j)
    \/ \E j \in JobIds : StartBoardingCommit(j)
    \/ \E j \in JobIds : Complete(j)
    \/ TickFlight

SpecFlight == Init /\ [][NextFlight]_vars

----------------------------------------------------------------------------
(* Properties of bookings, seats and the expiry job *)

ExpireJobs == {j \in JobIds : jobs[j].kind = "expire-booking"}

\* The process-waitlist jobs (promotion invocations) the release of booking b caused
PromotionsFor(b) == {j \in JobIds : jobs[j].kind = "process-waitlist" /\ jobs[j].origin = b}

LiveTicket(b) == ticket[b].ticketStatus \notin {"NONE", "CANCELLED", "REFUNDED"}

SameSeat(b1, b2) ==
    /\ ticket[b1].flightId = ticket[b2].flightId
    /\ ticket[b1].seatId = ticket[b2].seatId

\* C1: in every reachable state no two tickets that are neither CANCELLED nor
\* REFUNDED reference the same (flightId, seatId) pair.
C1_NoTwoLiveTicketsOnOneSeat ==
    \A b1, b2 \in BookingIds :
        (b1 # b2 /\ LiveTicket(b1) /\ LiveTicket(b2)) => ~SameSeat(b1, b2)

\* C2: of two create/reserve calls for the same, single free seat of a flight,
\* once both have returned and nothing was released, exactly one holds the
\* seat and the other was told the seat is taken.
C2_OneHoldOneBusy ==
    \A b1, b2 \in BookingIds :
        (/\ b1 # b2
         /\ req[b1].pc \in {"held", "busy"}
         /\ req[b2].pc \in {"held", "busy"}
         /\ req[b1].flightId = req[b2].flightId
         /\ req[b1].seatId = req[b2].seatId
         /\ booking[b1] # "CANCELLED"
         /\ booking[b2] # "CANCELLED")
        => ((req[b1].pc = "held") # (req[b2].pc = "held"))

\* C3: an expire-booking job that finds its booking not PENDING returns
\* without changing the booking, its tickets, the waitlist, the history or
\* the notifications and without adding a promotion job; so a job delivered
\* twice cancels its booking at most once.
C3_ExpireNoOpUnlessPending ==
    /\ [](\A j \in ExpireJobs : jobs[j].applied <= 1)
    /\ [][\A j \in ExpireJobs :
            (/\ jobs[j].pc = "start"
             /\ jobs'[j].pc # "start"
             /\ booking[jobs[j].target] # "PENDING")
            => (/\ jobs'[j].pc \in {"returned", "idle"}
                /\ jobs'[j].applied = jobs[j].applied
                /\ Len(jobs') = Len(jobs)
                /\ UNCHANGED <<booking, ticket, waitlist, bookingHistory, notified>>)]_vars

\* C3 witness: an expire-booking job cancelled its booking, was delivered a
\* second time, found the booking CANCELLED and completed.
C3_Witness ==
    \E j \in ExpireJobs :
        /\ jobs[j].status = "DONE"
        /\ jobs[j].runs = 2
        /\ jobs[j].applied = 1
        /\ jobs[j].seen = "CANCELLED"

\* C4: of confirmPayment and expire on one PENDING booking exactly one takes
\* effect: it never happens that the payment was accepted and the expiry
\* cancelled the booking too, and a CONFIRMED booking never has its ticket
\* cancelled.
C4_PaymentOrExpiryNotBoth ==
    \A j \in ExpireJobs :
        /\ ~(confirmResp[jobs[j].target] = "ok" /\ jobs[j].applied > 0)
        /\ booking[jobs[j].target] = "CONFIRMED"
              => ticket[jobs[j].target].ticketStatus # "CANCELLED"

\* C5: once cancel has returned and the expire-booking job has completed, the
\* booking is CANCELLED, its ticket no longer holds the seat, and waitlist
\* promotion was invoked exactly once for it.
C5_OnePromotionPerRelease ==
    \A j \in ExpireJobs :
        (cancelResp[jobs[j].target] = "ok" /\ jobs[j].status = "DONE")
        => (/\ booking[jobs[j].target] = "CANCELLED"
            /\ ~LiveTicket(jobs[j].target)
            /\ Cardinality(PromotionsFor(jobs[j].target)) = 1)

\* C6: after expire has cancelled a PENDING booking, the booking is CANCELLED,
\* promotion was triggered for its flight, and its seat, unless another live
\* ticket holds it, passes the availability check of a new booking.
C6_ExpiredSeatBookableAgain ==
    \A j \in ExpireJobs :
        jobs[j].applied > 0
        => (/\ booking[jobs[j].target] = "CANCELLED"
            /\ \E p \in PromotionsFor(jobs[j].target) :
                   jobs[p].target = ticket[jobs[j].target].flightId
            /\ (\A b \in BookingIds : LiveTicket(b) => ~SameSeat(b, jobs[j].target))
                  => ~SeatsAlreadyBooked(ticket[jobs[j].target].flightId,
                                         ticket[jobs[j].target].seatId))

\* C7: whenever a waitlist entry becomes CONFIRMED, no other entry of its
\* flight that is ACTIVE at that moment comes before it in
\* (rank, createdAt) order.
C7_PromotesInRankOrder ==
    [][\A w \in WaitlistIds :
          (waitlist[w].status # "CONFIRMED" /\ waitlist'[w].status = "CONFIRMED")
          => ~\E v \in WaitlistIds :
                 /\ v # w
                 /\ waitlist[v].flightId = waitlist[w].flightId
                 /\ waitlist[v].status = "ACTIVE"
                 /\ OrderedBefore(v, w)]_vars

----------------------------------------------------------------------------
(* Properties of retries and the dead letter queue *)

\* How often job j was recorded as a failed job
DeadLetters(j) == Cardinality({i \in 1..Len(failedJobs) : failedJobs[i] = j})

\* C8: a job never has more attempts than its attempts option; it is DEAD
\* exactly when a failure brought its attempts to that number, it is then
\* recorded and alerted once, and a DEAD job never waits or runs again.
C8_AttemptsBoundedDeadOnce ==
    /\ [](\A j \in JobIds :
            /\ jobs[j].attemptsMade <= jobs[j].attempts
            /\ (jobs[j].status = "DEAD") = (jobs[j].attemptsMade = jobs[j].attempts)
            /\ DeadLetters(j) = IF jobs[j].status = "DEAD" THEN 1 ELSE 0)
    /\ [](notified["alert-ops"] = Len(failedJobs))
    /\ [][\A j \in JobIds : jobs[j].status = "DEAD" => jobs'[j] = jobs[j]]_vars

\* C8 witness: a job with three attempts failed three times and is DEAD,
\* with its one dead-letter record and alert.
C8_Witness ==
    \E j \in JobIds :
        /\ jobs[j].status = "DEAD"
        /\ jobs[j].attempts = ExpireBookingAttempts
        /\ jobs[j].attemptsMade = ExpireBookingAttempts
        /\ DeadLetters(j) = 1
        /\ notified["alert-ops"] >= 1

ThirdRunSucceeded(j) ==
    /\ jobs[j].kind = "expire-booking"
    /\ jobs[j].attempts = 3
    /\ jobs[j].status = "DONE"
    /\ jobs[j].runs = 3

----------------------------------------------------------------------------
(* Properties of the flight status jobs *)

BoardingJobs == {j \in JobIds : jobs[j].kind = "start-boarding"}

\* C10: a start-boarding job that fires on a flight staff have already
\* CANCELLED changes nothing: no status change, no history row, no
\* notification; the flight is still CANCELLED afterwards.
C10_BoardingJobSkipsCancelledFlight ==
    /\ [](\A j \in BoardingJobs :
            jobs[j].seen = "CANCELLED"
            => (jobs[j].applied = 0 /\ flight[jobs[j].target] = "CANCELLED"))
    /\ [][\A j \in BoardingJobs :
            (/\ jobs[j].pc = "start"
             /\ jobs'[j].pc # "start"
             /\ flight[jobs[j].target] = "CANCELLED")
            => (/\ jobs'[j].pc = "returned"
                /\ Len(jobs') = Len(jobs)
                /\ UNCHANGED <<flight, flightHistory, notified>>)]_vars

\* C10 witness: the flight went from SCHEDULED to CANCELLED by staff action,
\* then its start-boarding job ran and completed; the only history row and
\* the only notification are those of the cancellation.
C10_Witness ==
    \E j \in BoardingJobs :
        /\ jobs[j].status = "DONE"
        /\ jobs[j].seen = "CANCELLED"
        /\ flight[jobs[j].target] = "CANCELLED"
        /\ flightHistory = << [flightId |-> jobs[j].target, oldStatus |-> "SCHEDULED",
                               newStatus |-> "CANCELLED"] >>
        /\ notified["flight-status-change"] = 1

\* C11: a flight's status changes only to a status the allowed-next-states
\* table lists for its current status, whether a scheduled job or a staff
\* action makes the change; a staff request outside the table is answered
\* InvalidTransition and leaves the status and the history as they were.
C11_OnlyAllowedFlightTransitions ==
    [][\A f \in Flights :
          /\ flight'[f] # flight[f] => flight'[f] \in AllowedNext(flight[f])
          /\ (flightResp'[f] = "InvalidTransition" /\ flightResp[f] # "InvalidTransition")
             => UNCHANGED <<flight, flightHistory>>]_vars

----------------------------------------------------------------------------
(* Properties of the booking lifecycle *)

BookingEdges ==
    {<<"NONE", "PENDING">>, <<"PENDING", "CONFIRMED">>, <<"CONFIRMED", "COMPLETED">>,
     <<"PENDING", "CANCELLED">>, <<"CONFIRMED", "CANCELLED">>}

C14_InvalidRequestsRejected ==
    [][\A b \in BookingIds :
          /\ (/\ confirmResp[b] = "none"
              /\ confirmResp'[b] # "none"
              /\ booking[b] # "PENDING")
             => (/\ confirmResp'[b] = "InvalidTransition"
                 /\ UNCHANGED <<booking, ticket, bookingHistory, jobs>>)
          /\ (/\ cancelResp[b] = "none"
              /\ cancelResp'[b] # "none"
              /\ booking[b] \notin {"PENDING", "CONFIRMED"})
             => (/\ cancelResp'[b] = "InvalidTransition"
                 /\ UNCHANGED <<booking, ticket, bookingHistory, jobs>>)]_vars

\* C14 witness: a booking that was already CANCELLED got a payment
\* confirmation and a cancel request; both were answered InvalidTransition
\* and it is still CANCELLED.
C14_Witness ==
    \E b \in BookingIds :
        /\ confirmResp[b] = "InvalidTransition"
        /\ cancelResp[b] = "InvalidTransition"
        /\ booking[b] = "CANCELLED"

C16_OneHistoryRowPerTransition ==
    [][/\ \A b \in BookingIds :
            bookingHistory'[b] =
                IF booking'[b] # booking[b] /\ booking[b] # "NONE"
                THEN Append(bookingHistory[b],
                            [oldStatus |-> booking[b], newStatus |-> booking'[b]])
                ELSE bookingHistory[b]
       /\ \A f \in Flights :
            flight'[f] # flight[f]
            => flightHistory' = Append(flightHistory,
                   [flightId |-> f, oldStatus |-> flight[f], newStatus |-> flight'[f]])
       /\ flight' = flight => flightHistory' = flightHistory]_vars

----------------------------------------------------------------------------
(* Properties of the dispatch loop, of retries under crashes, and of the
   circuit breaker *)

\* The workers that are running the handler of job j
RunningOn(j) == {w \in Workers : worker[w].pc = "running" /\ worker[w].job = j}

\* C17: a job is run by at most one worker at a time, and only while it is
\* RUNNING; a worker whose compare-and-swap finds the job no longer PENDING
\* changes no job and does not run the handler.
C17_OneWorkerPerJob ==
    /\ [](\A j \in JobIds :
            /\ Cardinality(RunningOn(j)) <= 1
            /\ RunningOn(j) # {} => jobs[j].status = "RUNNING")
    /\ [][\A w \in Workers :
            (/\ worker[w].pc = "picked"
             /\ worker'[w].pc # "picked"
             /\ jobs[worker[w].job].status # "PENDING")
            => (worker'[w].pc = "lost" /\ jobs' = jobs)]_vars

\* C17 witness: two workers picked the same job; one runs it, the other lost
\* the swap.
C17_Witness ==
    \E w1, w2 \in Workers :
        /\ worker[w1].pc = "running"
        /\ worker[w2].pc = "lost"
        /\ worker[w2].job = worker[w1].job
        /\ jobs[worker[w1].job].runs = 1

\* C18: under fair scheduling every enqueued job eventually is DONE or DEAD,
\* also when a worker crashes after claiming it: the claim times out, the
\* job is PENDING again and is claimed again.
C18_EveryJobEnds ==
    \A j \in 1..MaxJobs :
        (j \in JobIds) ~> (j \in JobIds /\ jobs[j].status \in {"DONE", "DEAD"})

\* C18 witness: a job whose worker crashed after the claim was claimed again
\* and is DONE.
C18_Witness ==
    \E j \in JobIds :
        /\ jobs[j].stalls = 1
        /\ jobs[j].runs = 2
        /\ jobs[j].attemptsMade = 0
        /\ jobs[j].status = "DONE"

\* C19: once the queue has seen the threshold number of consecutive handler
\* failures (no success and no resume in between) it is paused, and a paused
\* queue hands out no job; when the cooldown ends the count is reset and the
\* queue resumes; a success resets the count.
C19_PausedAfterConsecutiveFailures ==
    /\ [](failureStreak >= CIRCUIT_BREAKER_THRESHOLD => queuePaused)
    /\ [][/\ (\E j \in JobIds : jobs[j].status = "PENDING" /\ jobs'[j].status = "RUNNING")
             => ~queuePaused
          /\ Len(resumeTimers') < Len(resumeTimers)
             => (consecutiveFailures' = 0 /\ ~queuePaused')
          /\ (\E j \in JobIds : jobs[j].status = "RUNNING" /\ jobs'[j].status = "DONE")
             => consecutiveFailures' = 0]_vars

Min(a, b) == IF a <= b THEN a ELSE b

\* The failure steps that leave job j waiting for a retry
Rescheduled(j) ==
    /\ jobs[j].status = "RUNNING"
    /\ jobs'[j].status = "PENDING"
    /\ jobs'[j].attemptsMade = jobs[j].attemptsMade + 1

\* C20 as claimed: after a failure that leaves attempts < maxAttempts the job
\* is PENDING with dueAt = failure time + min(cap, base * 2^attempts), attempts
\* being the value after the increment (the cap taken as the largest delay
\* the retry configuration lists).
C20_DelayIsBaseTimesTwoToAttempts ==
    [][\A j \in JobIds :
          Rescheduled(j)
          => jobs'[j].dueAt =
                now + Min(LargestListedBackoff,
                          jobs[j].backoff * Pow2(jobs'[j].attemptsMade))]_vars

\* C20 as amended: after such a failure the job is PENDING with
\* dueAt = failure time + base * 2^(attempts - 1): base, 2 * base, ... which
\* never decreases and, attempts staying below maxAttempts, never exceeds
\* base * 2^(maxAttempts - 2).
C20_DelayDoublesFromBase ==
    [][\A j \in JobIds :
          Rescheduled(j)
          => /\ jobs'[j].attemptsMade < jobs[j].attempts
             /\ jobs'[j].dueAt = now + jobs[j].backoff * Pow2(jobs'[j].attemptsMade - 1)
             /\ jobs'[j].dueAt - now <= jobs[j].backoff * Pow2(jobs[j].attempts - 2)
             /\ jobs'[j].dueAt - now >= jobs[j].backoff]_vars

\* C20 witness: an expire-booking job has just failed for the second time and
\* waits twice its base delay.
C20_Witness ==
    \E j \in JobIds :
        /\ jobs[j].kind = "expire-booking"
        /\ jobs[j].status = "PENDING"
        /\ jobs[j].attemptsMade = 2
        /\ jobs[j].dueAt = now + 2 * BackoffDelay
        /\ jobs[j].backoff = BackoffDelay

----------------------------------------------------------------------------
(* Properties of handler failures in the worker pool *)

----------------------------------------------------------------------------
(* Properties of waitlist promotion *)

PromoteJobs == {j \in JobIds : jobs[j].kind = "process-waitlist"}

\* C22: a promotion for a flight takes min(freedSeats, number of ACTIVE
\* entries of the flight) entries; for each of them it turns that one entry
\* from ACTIVE to CONFIRMED, adds one confirmation-expiry job for it and one
\* notification, and changes no other waitlist entry.
C22_PromoteConfirmsTheFirstActive ==
    [][\A j \in PromoteJobs :
          /\ (jobs[j].pc = "start" /\ jobs'[j].pc \in {"read", "returned"})
             => (/\ Len(jobs'[j].snap) =
                       Min(jobs[j].avail, Cardinality(ActiveOn(jobs[j].target)))
                 /\ UNCHANGED <<waitlist, notified>>
                 /\ Len(jobs') = Len(jobs))
          /\ jobs'[j].applied = jobs[j].applied + 1
             => \E w \in WaitlistIds :
                   /\ waitlist[w].flightId = jobs[j].target
                   /\ waitlist[w].status = "ACTIVE"
                   /\ waitlist' = [waitlist EXCEPT ![w].status = "CONFIRMED"]
                   /\ Len(jobs') = Len(jobs) + 1
                   /\ jobs'[Len(jobs')].kind = "expire-waitlist-confirmation"
                   /\ jobs'[Len(jobs')].target = w
                   /\ notified' = Bump(notified, "waitlist-confirmed")]_vars
RECURSIVE Applied(_)
\* How many confirmations the promotion jobs S have made
Applied(S) ==
    IF S = {} THEN 0
    ELSE LET j == CHOOSE x \in S : TRUE IN jobs[j].applied + Applied(S \ {j})

ConfirmedEntries == {w \in WaitlistIds : waitlist[w].status = "CONFIRMED"}

\* C28: when promotions of one flight run concurrently no entry is confirmed
\* twice: every confirmation a promotion makes moves one more entry to
\* CONFIRMED, so no freed seat is spent on an entry another promotion
\* confirmed.
C28_NoEntryConfirmedTwice ==
    Applied(PromoteJobs) = Cardinality(ConfirmedEntries)

ExpiryJobs == {j \in JobIds : jobs[j].kind = "expire-waitlist-confirmation"}

\* No promotion and no confirmation expiry is waiting or running
ChainAtRest ==
    \A j \in PromoteJobs \cup ExpiryJobs : jobs[j].status = "DONE"

\* C23: a confirmation-expiry job that finds its entry still CONFIRMED and
\* not converted makes it EXPIRED and invokes promotion again; one that finds
\* it converted or not CONFIRMED changes nothing; and under fair job
\* execution the chain of expiries and promotions comes to rest.
C23_ExpiryChainTerminates ==
    /\ [][\A j \in ExpiryJobs :
            (jobs[j].pc = "start" /\ jobs'[j].pc # "start")
            => LET w == jobs[j].target
               IN IF waitlist[w].status = "CONFIRMED" /\ ~waitlist[w].converted
                  THEN /\ waitlist' = [waitlist EXCEPT ![w].status = "EXPIRED"]
                       /\ Len(jobs') = Len(jobs) + 1
                       /\ jobs'[Len(jobs')].kind = "process-waitlist"
                       /\ jobs'[Len(jobs')].target = waitlist[w].flightId
                       /\ jobs'[Len(jobs')].avail = 1
                  ELSE /\ waitlist' = waitlist
                       /\ Len(jobs') = Len(jobs)]_vars
    /\ <>[]ChainAtRest

\* C23 witness: the first confirmed passenger let the confirmation run out,
\* the next one was promoted and bought, both expiry jobs are done and no
\* ACTIVE entry is left.
C23_Witness ==
    /\ Len(waitlist) = 2
    /\ \E w, v \in WaitlistIds :
          /\ waitlist[w].status = "EXPIRED"
          /\ waitlist[v].status = "CONFIRMED"
          /\ waitlist[v].converted
    /\ Cardinality(ExpiryJobs) >= 2
    /\ ChainAtRest

----------------------------------------------------------------------------
(* Properties of the expiry window *)

\* C24: a booking is created PENDING with its ticket ISSUED and an
\* expire-booking job due at the creation time plus the expiry window; and
\* under fair job execution every PENDING booking eventually is CONFIRMED or
\* CANCELLED.
C24_PendingAlwaysResolves ==
    /\ [][\A b \in BookingIds :
            (booking[b] = "NONE" /\ booking'[b] # "NONE")
            => (/\ booking'[b] = "PENDING"
                /\ ticket'[b].ticketStatus = "ISSUED"
                /\ Len(jobs') = Len(jobs) + 1
                /\ jobs'[Len(jobs')].kind = "expire-booking"
                /\ jobs'[Len(jobs')].target = b
                /\ jobs'[Len(jobs')].status = "PENDING"
                /\ jobs'[Len(jobs')].dueAt = now + ExpireBookingDelay)]_vars
    /\ \A b \in BookingIds :
          (booking[b] = "PENDING") ~> (booking[b] \in {"CONFIRMED", "CANCELLED"})

----------------------------------------------------------------------------
(* Properties of cancellation *)

\* C26: after cancel has succeeded on a PENDING or CONFIRMED booking the
\* booking is CANCELLED, its ticket is CANCELLED, and the seat the ticket
\* held, unless another live ticket holds it, can be granted again: it
\* passes the availability check of a new booking.
C26_CancelledSeatCanBeGrantedAgain ==
    \A b \in BookingIds :
        cancelResp[b] = "ok"
        => (/\ booking[b] = "CANCELLED"
            /\ ticket[b].ticketStatus = "CANCELLED"
            /\ (\A other \in BookingIds \ {b} : LiveTicket(other) => ~SameSeat(other, b))
                  => ~SeatsAlreadyBooked(ticket[b].flightId, ticket[b].seatId))

----------------------------------------------------------------------------
(* Properties of the flight schedule *)

\* The jobs scheduled for flight f
JobsOf(f) == {j \in JobIds : jobs[j].kind \in FlightJobNames /\ jobs[j].target = f}

\* C27: when the three scheduled jobs of a flight created SCHEDULED have
\* fired in due order and staff never acted on the flight, every job has
\* made its transition and the flight is ARRIVED.
C27_ScheduledJobsReachArrived ==
    \A f \in Flights :
        (/\ flightResp[f] = "none"
         /\ \A kind \in FlightJobNames : \E j \in JobsOf(f) : jobs[j].kind = kind
         /\ \A j \in JobsOf(f) : jobs[j].status = "DONE")
        => (/\ flight[f] = "ARRIVED"
            /\ \A j \in JobsOf(f) : jobs[j].applied = 1)

\* The place of a status in the chain SCHEDULED, BOARDING, DEPARTED,
\* IN_FLIGHT, LANDED, ARRIVED (0: not in the chain)
ChainRank(status) ==
    CASE status = "SCHEDULED" -> 1
      [] status = "BOARDING" -> 2
      [] status = "DEPARTED" -> 3
      [] status = "IN_FLIGHT" -> 4
      [] status = "LANDED" -> 5
      [] status = "ARRIVED" -> 6
      [] OTHER -> 0

\* C29: a flight that is ARRIVED or CANCELLED keeps that status, and the
\* statuses of the chain a flight takes, one after the other and with any
\* DELAYED in between left out, never go back.
C29_FlightStatusNeverGoesBack ==
    /\ [][\A f \in Flights :
            flight[f] \in {"ARRIVED", "CANCELLED"} => flight'[f] = flight[f]]_vars
    /\ [](\A i, k \in 1..Len(flightHistory) :
            (/\ i < k
             /\ flightHistory[i].flightId = flightHistory[k].flightId
             /\ ChainRank(flightHistory[i].newStatus) > 0
             /\ ChainRank(flightHistory[k].newStatus) > 0)
            => ChainRank(flightHistory[i].newStatus) <= ChainRank(flightHistory[k].newStatus))

----------------------------------------------------------------------------
(* Properties of the validation layer *)

\* C30: a payload that is valid otherwise is accepted when its dateOfBirth
\* lies at least 18 years before the current date, and rejected with a
\* BadRequestError when it lies less than 18 years before it.
C30_AdultsAcceptedMinorsRejected ==
    signUp.pc = "validated"
    => (signUp.outcome =
           IF signUp.dateOfBirth <= signUp.today - AdultAge * DaysPerYear
           THEN "parsed" ELSE "BadRequestError")

====
